---- MODULE Spec2Model ----
(***************************************************************************)
(* Dialogue flow of the voice bots: the intake assistant (bots/bot.py),    *)
(* the shawarma ordering flow (bots/shawarma_bot.py) and the plain chat    *)
(* bot (bots/simple.py).  One session runs one bot.  The state is the LLM  *)
(* context (messages, tools), the function call in flight, what the        *)
(* transport has seen, and each bot's session record.  The server that     *)
(* launches the bots (bots/server.py) has a specification of its own.      *)
(***************************************************************************)
EXTENDS Integers, Sequences, FiniteSets, TLC

\* ------------------------------------------------------------- bounds
MaxIntakeMsgs == 5
MaxFlowMsgs == 12
MaxQueue == 2
MaxItems == 2
MaxDetours == 2
MaxOrderId == 2
MaxPids == 2
MaxRooms == 2

VARIABLES
    bot,            \* the script this session runs: "intake" | "shawarma" | "simple"
    joined,         \* on_first_participant_joined has run
    participant_left, \* the participant has left the room
    spoken,         \* utterances sent to the TTS and the transport output
    task_state,     \* PipelineTask: "running" | "ending" | "ended" |
                    \* "cancelled" | "stalled" (the LLM service is dead)
    messages,       \* OpenAILLMContext messages, in conversation order
    tools,          \* OpenAILLMContext tools: the names advertised to the LLM
    registered,     \* names registered on the LLM service (register_function)
    llm_queue,      \* context frames queued to the LLM and not yet processed
    snapshot_tools, \* the tools in the context when it was last queued
    fresh_frames,   \* queued frames submitted after the context last changed
    result_calls,   \* result_callback calls of the handler last started
    call,           \* the function call in flight
    stale_calls,    \* function calls the LLM made outside the advertised tools
    stage,          \* intake bot: the stage last entered
    saved_file,     \* intake bot: file last written by save_conversation
    final_file,     \* intake bot: file written by on_participant_left
    current_node,   \* shawarma bot: FlowManager's current node
    current_order,  \* shawarma bot: order_manager.current_order
    next_order_id,  \* shawarma bot: order_manager.next_order_id
    check_task,     \* shawarma bot: the check_order_exists task
    end_timers,     \* shawarma bot: end_call_after_delay tasks still sleeping
    end_frames,     \* shawarma bot: EndFrames queued to the pipeline task
    pending_at_end, \* shawarma bot: context frames queued ahead of the
                    \* first EndFrame and not yet processed
    bot_procs,      \* server: pid -> the process started and its room
    room_bot_types, \* server: room url -> the bot type stored by /connect
    status_response,   \* server: the last answer of GET /status/{pid}
    finished_reported, \* server: the pids GET /status has reported finished
    agent_requests  \* server: the GET /start_agent requests, each with its
                    \* room and how far it has got

ctxVars == <<messages, tools, registered, llm_queue, call, stale_calls,
             snapshot_tools, fresh_frames, result_calls>>
intakeVars == <<stage, saved_file, final_file>>
shawarmaVars == <<current_node, current_order, next_order_id, check_task,
                  end_timers, end_frames, pending_at_end>>
transportVars == <<participant_left, spoken>>
serverVars == <<bot_procs, room_bot_types, status_response, finished_reported,
               agent_requests>>
vars == <<bot, joined, task_state, transportVars, ctxVars, intakeVars,
          shawarmaVars, serverVars>>

\* ------------------------------------------------------------- context
Msg(role, content) == [role |-> role, content |-> content]

Front(s) == SubSeq(s, 1, Len(s) - 1)

IsPrefix(s, t) == Len(s) <= Len(t) /\ SubSeq(t, 1, Len(s)) = s

\* context.add_message(m)
AddMessagePrepend(msgs, m) == <<m>> \o msgs
AddMessage(msgs, m) == Append(msgs, m)

RECURSIVE AddMessages(_, _)
AddMessages(msgs, ms) ==
    IF ms = <<>> THEN msgs ELSE AddMessages(AddMessage(msgs, Head(ms)), Tail(ms))

\* context.set_tools(new): the tool list is replaced, not extended
SetToolsExtend(old, new) == old \cup new
SetTools(old, new) == new

NoArg == [none |-> TRUE]
NoCall == [name |-> "none", arg |-> NoArg, pc |-> "idle", result |-> "none"]

Running == joined /\ task_state = "running"

\* task.cancel(): a task that is running or ending is cancelled
TaskCancel(state) == IF state = "ended" THEN state ELSE "cancelled"

\* An EndFrame is processed in order: the frames queued ahead of it are still
\* processed, and a function call in flight still runs to its end
Draining == joined /\ task_state = "ending"
Processing == Running \/ Draining
\* The LLM can answer a queued context.  The check_order_exists task is ready
\* as soon as it is created, so it has run before the answer to the first
\* context can arrive
CanConsume ==
    /\ Running \/ (Draining /\ pending_at_end > 0)
    /\ check_task # "pending"
Consumed(n) == IF task_state = "ending" THEN n - 1 ELSE n

\* The LLM takes the frame at the head of the queue: the frames that were
\* submitted after the last change of the context and are still queued
Taken(q, fresh) == IF fresh < q - 1 THEN fresh ELSE q - 1

RECURSIVE CountMsg(_, _)
CountMsg(msgs, m) ==
    IF msgs = <<>> THEN 0
    ELSE (IF Head(msgs) = m THEN 1 ELSE 0) + CountMsg(Tail(msgs), m)

\* ------------------------------------------------------------- intake bot
CorrectBirthday == "1983-01-01"
Birthdays == {"1983-01-01", "1983-01-02", "January 1st 1983"}

\* verify_birthday: args["birthday"] == "1983-01-01"
BirthdayVerifiedAnyFormat(birthday) ==
    birthday \in {"1983-01-01", "January 1st 1983"}
BirthdayVerified(birthday) == birthday = CorrectBirthday

\* IntakeProcessor.__init__: the tools set at construction
InitialTools == {"save_conversation", "verify_birthday", "get_weather",
                 "get_recipe", "get_news"}
PrescriptionsToolsKeepSave == {"list_prescriptions", "save_conversation"}
PrescriptionsTools == {"list_prescriptions"}
AllergiesTools == {"list_allergies"}
ConditionsTools == {"list_conditions"}
VisitReasonsTools == {"list_visit_reasons"}
FinishTools == {}

RolePrompt == Msg("system", "role_prompt")

\* simple.py: the context starts with the system prompt
SimplePrompt == Msg("system", "simple_prompt")

\* main: llm.register_function(name, handler, start_callback=...)
IntakeHandler ==
    [verify_birthday |-> "verify_birthday", get_weather |-> "get_weather",
     save_conversation |-> "save_conversation",
     list_prescriptions |-> "save_data", list_allergies |-> "save_data",
     list_conditions |-> "save_data", list_visit_reasons |-> "save_data",
     get_recipe |-> "get_recipe", get_news |-> "get_news"]
IntakeStartCallback ==
    [list_prescriptions |-> "start_prescriptions",
     list_allergies |-> "start_allergies",
     list_conditions |-> "start_conditions",
     list_visit_reasons |-> "start_visit_reasons"]
IntakeRegistered == DOMAIN IntakeHandler

\* The stage a start callback enters, its tools and the message it adds
StartCallbackStage ==
    [start_prescriptions |-> "allergies", start_allergies |-> "conditions",
     start_conditions |-> "visit_reasons", start_visit_reasons |-> "finish"]
StartCallbackTools ==
    [start_prescriptions |-> AllergiesTools, start_allergies |-> ConditionsTools,
     start_conditions |-> VisitReasonsTools, start_visit_reasons |-> FinishTools]
StartCallbackMessage ==
    [start_prescriptions |-> Msg("system", "ask_allergies"),
     start_allergies |-> Msg("system", "ask_conditions"),
     start_conditions |-> Msg("system", "ask_visit_reasons"),
     start_visit_reasons |-> Msg("system", "thank_and_end")]

\* The tools in the context a start callback queues to the LLM: set_tools
\* has replaced them before queue_frame is called
StartCallbackQueuedBeforeSwap(old, new) == old
StartCallbackQueued(old, new) == new

\* The tools each intake stage declares
StageTools(s) ==
    CASE s = "verification" -> {"save_conversation", "verify_birthday",
                                "get_weather", "get_recipe", "get_news"}
      [] s = "prescriptions" -> {"list_prescriptions"}
      [] s = "allergies" -> {"list_allergies"}
      [] s = "conditions" -> {"list_conditions"}
      [] s = "visit_reasons" -> {"list_visit_reasons"}
      [] s = "finish" -> {}

\* The order in which a registered function is run: the start callback, when
\* one was registered, runs before the handler
DispatchEntryHandlerFirst(name) == "handler"
DispatchEntry(name) ==
    IF name \in DOMAIN IntakeStartCallback THEN "start" ELSE "handler"

\* Messages and context frames one call can add at most (the room a request
\* needs under the bounds)
CallMsgs(name) ==
    CASE name \in {"get_news", "revise_order"} -> 3
      [] name \in {"start_ordering", "select_shawarma_order",
                   "set_delivery_info", "complete_order"} -> 2
      [] OTHER -> 1
CallFrames(name) == IF name = "get_news" THEN 2 ELSE 1
ReservedMsgs == IF call = NoCall THEN 0 ELSE CallMsgs(call.name)
ReservedFrames == IF call = NoCall THEN 0 ELSE CallFrames(call.name)
MaxMsgs == IF bot = "shawarma" THEN MaxFlowMsgs ELSE MaxIntakeMsgs
\* What happened in the session besides the calls the script asks for: the
\* user's utterances, the LLM's text replies and its calls outside the
\* advertised tools
Detours == CountMsg(messages, Msg("user", "utterance"))
           + CountMsg(messages, Msg("assistant", "reply")) + stale_calls

Room(nmsgs, nframes) ==
    /\ Len(messages) + nmsgs <= MaxMsgs
    /\ llm_queue + nframes <= MaxQueue

\* result_callback(msgs): a list of messages is added to the context and the
\* LLM is prompted again; None adds nothing and does not prompt
ResultCallbackMessages(msgs, result) == AddMessages(msgs, result)
ResultCallbackFrames(q, result) == IF result = <<>> THEN q ELSE q + 1

NoFile == [written |-> FALSE, doc |-> <<>>]

\* save_conversation: the copy for persistent storage with its last message
\* popped
PersistedDocNoPop(msgs) == msgs
PersistedDoc(msgs) == Front(msgs)

\* What the external service does with a lookup: a 200 answer with a
\* result, a non-200 answer, a 200 answer with no result, or an exception
\* inside the request
LookupOutcomes == {"found", "non200", "empty", "exception"}

\* WeatherProcessor.get_weather / RecipeProcessor.get_recipe /
\* NewsProcessor.get_latest_news: the record, or None for a non-200 answer,
\* an empty result and every exception (caught inside the processor)
LookupRaisesOnException(outcome) ==
    CASE outcome = "found" -> "record"
      [] outcome = "exception" -> "raised"
      [] OTHER -> "none"
Lookup(outcome) == IF outcome = "found" THEN "record" ELSE "none"

\* Arguments of a lookup call, with the answer the service will give to it
LookupArgs == {[query |-> "q", answer |-> o] : o \in LookupOutcomes}

\* The arguments the LLM may send with each function; NoArg lacks the key the
\* handler reads
IntakeArgs(name) ==
    CASE name = "verify_birthday" ->
            {[birthday |-> b] : b \in Birthdays} \cup {NoArg}
      [] name \in {"get_weather", "get_recipe", "get_news"} ->
            LookupArgs \cup {NoArg}
      [] OTHER -> {NoArg}

\* ------------------------------------------------------------- shawarma bot
SHAWARMA_MENU == [chicken |-> 65, meat |-> 85, mix |-> 75]
EXTRAS == [fries |-> 25, cheese |-> 10, garlic_sauce |-> 5, tahini_extra |-> 5]

\* Arguments the LLM may send
ItemArg(t, q, e) == [item_type |-> t, quantity |-> q, extras |-> e]
SelectInputs == {ItemArg("meat", 2, <<"cheese">>), ItemArg("falafel", 1, <<>>)}
DeliveryInputs == {[address |-> "12 Tahrir St", phone |-> "01001234567"]}

\* The arguments the LLM may send with each function of the flow; NoArg lacks
\* the keys the handler reads
FlowArgs(name) ==
    CASE name = "select_shawarma_order" -> SelectInputs \cup {NoArg}
      [] name = "set_delivery_info" -> DeliveryInputs \cup {NoArg}
      [] OTHER -> {NoArg}

\* OrderManager.__init__: current_order = None
NoOrder == [exists |-> FALSE, items |-> <<>>, address |-> "", phone |-> "",
            total |-> 0]

\* OrderManager.create_new_order
CreateNewOrder == [exists |-> TRUE, items |-> <<>>, address |-> "",
                   phone |-> "", total |-> 0]

RECURSIVE ExtrasPrice(_)
ExtrasPrice(extras) ==
    IF extras = <<>> THEN 0
    ELSE (IF Head(extras) \in DOMAIN EXTRAS THEN EXTRAS[Head(extras)] ELSE 0)
         + ExtrasPrice(Tail(extras))

\* OrderManager.calculate_item_price
CalculateItemPriceExtrasPerUnit(item) ==
    (SHAWARMA_MENU[item.type] + ExtrasPrice(item.extras)) * item.quantity
CalculateItemPrice(item) ==
    SHAWARMA_MENU[item.type] * item.quantity + ExtrasPrice(item.extras)

RECURSIVE SumPrices(_)
SumPrices(items) ==
    IF items = <<>> THEN 0
    ELSE CalculateItemPrice(Head(items)) + SumPrices(Tail(items))

\* OrderManager._update_total
UpdateTotal(order) ==
    IF ~order.exists THEN order ELSE [order EXCEPT !.total = SumPrices(order.items)]

\* OrderManager.add_item: the order after the call, and whether it raised
AddItemAppendsFirst(order, item_type, quantity, extras) ==
    LET o == IF ~order.exists THEN CreateNewOrder ELSE order
        new_item == [type |-> item_type, quantity |-> quantity, extras |-> extras]
    IN  IF item_type \notin DOMAIN SHAWARMA_MENU
        THEN [order |-> [o EXCEPT !.items = Append(@, new_item)],
              raised |-> TRUE]
        ELSE [order |-> UpdateTotal([o EXCEPT !.items = Append(@, new_item)]),
              raised |-> FALSE]
AddItem(order, item_type, quantity, extras) ==
    LET o == IF ~order.exists THEN CreateNewOrder ELSE order
        new_item == [type |-> item_type, quantity |-> quantity, extras |-> extras]
    IN  IF item_type \notin DOMAIN SHAWARMA_MENU
        THEN [order |-> o, raised |-> TRUE]
        ELSE [order |-> UpdateTotal([o EXCEPT !.items = Append(@, new_item)]),
              raised |-> FALSE]

\* OrderManager.set_delivery_info
SetDeliveryInfo(order, address, phone) ==
    IF ~order.exists
    THEN [order |-> order, raised |-> TRUE]
    ELSE [order |-> [order EXCEPT !.address = address, !.phone = phone],
          raised |-> FALSE]

RECURSIVE TotalQuantity(_)
TotalQuantity(items) ==
    IF items = <<>> THEN 0
    ELSE Head(items).quantity + TotalQuantity(Tail(items))

\* OrderManager.get_estimated_delivery_time
GetEstimatedDeliveryTimePerLine(order) ==
    IF ~order.exists \/ order.items = <<>> THEN 30
    ELSE 15 + 5 * Len(order.items)
GetEstimatedDeliveryTime(order) ==
    IF ~order.exists \/ order.items = <<>> THEN 30
    ELSE 15 + 5 * TotalQuantity(order.items)

\* OrderManager.get_order_summary reads EXTRAS[extra] for every extra of
\* every item: an extra that is not in EXTRAS is a KeyError
SummaryRaises(order) ==
    \E i \in 1..Len(order.items) : \E j \in 1..Len(order.items[i].extras) :
        order.items[i].extras[j] \notin DOMAIN EXTRAS

\* OrderManager.finalize_order: the three checks, then the order number is
\* taken from next_order_id, which is incremented, then the summary is made
FinalizeOrderCountsFirst(order, next_id) ==
    [next_order_id |-> next_id + 1,
     raised |-> \/ ~order.exists \/ order.items = <<>> \/ order.address = ""
                \/ order.phone = "" \/ SummaryRaises(order)]
FinalizeOrder(order, next_id) ==
    IF ~order.exists \/ order.items = <<>> \/ order.address = ""
       \/ order.phone = ""
    THEN [next_order_id |-> next_id, raised |-> TRUE]
    ELSE [next_order_id |-> next_id + 1, raised |-> SummaryRaises(order)]

\* flow_config
InitialNode == "start"
FlowNodes == {"start", "order_items", "delivery_info", "confirm", "end"}
\* The functions of each node, in the order flow_config lists them
NodeFunctionListRepeatsMenu ==
    [start |-> <<"get_menu", "start_ordering">>,
     order_items |-> <<"select_shawarma_order", "get_menu", "get_menu">>,
     delivery_info |-> <<"set_delivery_info">>,
     confirm |-> <<"complete_order", "revise_order">>,
     end |-> <<>>]
NodeFunctionList ==
    [start |-> <<"get_menu", "start_ordering">>,
     order_items |-> <<"select_shawarma_order", "get_menu">>,
     delivery_info |-> <<"set_delivery_info">>,
     confirm |-> <<"complete_order", "revise_order">>,
     end |-> <<>>]
NodeFunctions ==
    [n \in FlowNodes |->
        {NodeFunctionList[n][i] : i \in 1..Len(NodeFunctionList[n])}]
FunctionTransitionMenuAdvances ==
    [get_menu |-> "order_items", start_ordering |-> "order_items",
     select_shawarma_order |-> "delivery_info", set_delivery_info |-> "confirm",
     complete_order |-> "end", revise_order |-> "start"]
FunctionTransitionDeliveryLoops ==
    [get_menu |-> "none", start_ordering |-> "order_items",
     select_shawarma_order |-> "delivery_info",
     set_delivery_info |-> "delivery_info",
     complete_order |-> "end", revise_order |-> "start"]
FunctionTransition ==
    [get_menu |-> "none", start_ordering |-> "order_items",
     select_shawarma_order |-> "delivery_info", set_delivery_info |-> "confirm",
     complete_order |-> "end", revise_order |-> "start"]
NodeMessages ==
    [start |-> <<Msg("system", "role_start"), Msg("system", "task_start")>>,
     order_items |-> <<Msg("system", "task_order_items")>>,
     delivery_info |-> <<Msg("system", "task_delivery_info")>>,
     confirm |-> <<Msg("system", "task_confirm")>>,
     end |-> <<Msg("system", "task_end")>>]
NodePreActions ==
    [start |-> <<"check_kitchen">>, order_items |-> <<>>, delivery_info |-> <<>>,
     confirm |-> <<>>, end |-> <<>>]
NodePostActions ==
    [start |-> <<>>, order_items |-> <<>>, delivery_info |-> <<>>,
     confirm |-> <<>>, end |-> <<"tts_say", "end_conversation">>]
FlowFunctionNames == DOMAIN FunctionTransition

\* The tools a node declares (no node: the empty context)
NodeTools(n) == IF n = "none" THEN {} ELSE NodeFunctions[n]

\* check_kitchen_status: the check is logged; the session is left as it is
\* and nothing is raised
CheckKitchenStatusAnnounces(s) ==
    [s EXCEPT !.messages = Append(@, Msg("system", "kitchen_status"))]
CheckKitchenStatus(s) == s

\* The pre-actions of a node run, in order, before its messages are added
RECURSIVE RunPreActions(_, _)
RunPreActions(actions, s) ==
    IF actions = <<>> THEN s
    ELSE RunPreActions(Tail(actions),
                       IF Head(actions) = "check_kitchen"
                       THEN CheckKitchenStatus(s) ELSE s)

\* tts_say_handler: the text is logged; nothing is sent to the TTS
TtsSayHandler(out, text) == out

\* What the post-actions of a node send to the transport
RECURSIVE ActionsSpoken(_, _)
ActionsSpoken(actions, out) ==
    IF actions = <<>> THEN out
    ELSE ActionsSpoken(Tail(actions),
                       IF Head(actions) = "tts_say"
                       THEN TtsSayHandler(out, "goodbye") ELSE out)

\* end_conversation_handler: each run schedules one end_call_after_delay task
RECURSIVE TimersScheduled(_)
TimersScheduled(actions) ==
    IF actions = <<>> THEN 0
    ELSE (IF Head(actions) = "end_conversation" THEN 1 ELSE 0)
         + TimersScheduled(Tail(actions))

\* ------------------------------------------------------------- the server
MAX_BOTS_PER_ROOM == 1

\* The botType values a request may carry (a request may carry none)
BotTypeValues == {"movie", "shawarma", "simple", "Shawarma"}

\* str.lower() on those values
Lower(s) == IF s = "Shawarma" THEN "shawarma" ELSE s

\* The script each endpoint starts for a bot type
BotScript(bot_type) ==
    CASE bot_type = "movie" -> "movie_bot.py"
      [] bot_type = "shawarma" -> "shawarma_bot.py"
      [] bot_type = "simple" -> "simple.py"
      [] OTHER -> "bot.py"

\* POST /start_bot: data.get("botType", "intake")
StartBotType(data) ==
    IF "botType" \in DOMAIN data THEN data.botType ELSE "intake"

\* POST /connect: the request's botType in lower case, or else the type
\* stored for the room the request names, or else "intake"
ConnectBotType(data, stored) ==
    IF "botType" \in DOMAIN data THEN Lower(data.botType)
    ELSE IF "room_url" \in DOMAIN data /\ data.room_url \in DOMAIN stored
         THEN stored[data.room_url]
         ELSE "intake"

\* The room of DAILY_SAMPLE_ROOM_URL and the rooms create_room returns
SampleRoom == "sample_room"
CreatedRooms == <<"room_1", "room_2", "room_3">>

\* start_agent: create_room(DailyRoomParams()) names no room, so every
\* request gets a room with a url of its own
AgentRoomNames == <<"agent_room_1", "agent_room_2", "agent_room_3">>
CreateRoomSameUrl(n) == AgentRoomNames[1]
CreateRoom(n) == AgentRoomNames[n + 1]

\* The processes recorded for a room that have not exited
\* (proc[1] == room.url and proc[0].poll() is None)
BotsInRoom(procs, room) ==
    {p \in DOMAIN procs : procs[p].room = room /\ ~procs[p].exited}

\* The bodies a request may have: {} is NoArg
Requests ==
    {[botType |-> v] : v \in BotTypeValues}
    \cup {[room_url |-> CreatedRooms[i]] : i \in 1..MaxRooms}
    \cup {NoArg}
RequestBotType(data) ==
    IF "botType" \in DOMAIN data THEN data.botType ELSE "missing"

Pids == 1..MaxPids

\* The pids the operating system may give to a new process: those no process
\* holds, a process that was waited for having given its pid back
FreePids ==
    {p \in Pids : p \notin DOMAIN bot_procs \/ bot_procs[p].reaped}

\* subprocess.Popen and bot_procs[proc.pid] = (proc, room_url); the entry
\* also keeps the endpoint and the botType the request carried
Popen(procs, pid, script, room, endpoint, bot_type) ==
    [p \in DOMAIN procs \cup {pid} |->
        IF p = pid
        THEN [script |-> script, room |-> room, endpoint |-> endpoint,
              botType |-> bot_type, exited |-> FALSE, reaped |-> FALSE]
        ELSE procs[p]]

\* proc.poll(): a process that has exited is waited for
Poll(procs, pid) ==
    IF procs[pid].exited THEN [procs EXCEPT ![pid].reaped = TRUE] ELSE procs

NoResponse == [bot_id |-> 0, code |-> 0, status |-> "none"]

\* ------------------------------------------------------------- initial state
\* The session type selects the script; each script builds its context in main
Init ==
    /\ bot \in {"intake", "shawarma", "simple"}
    /\ joined = FALSE
    /\ participant_left = FALSE
    /\ spoken = <<>>
    /\ task_state = "running"
    /\ messages = CASE bot = "intake" -> AddMessage(<<>>, RolePrompt)
                     [] bot = "simple" -> <<SimplePrompt>>
                     [] OTHER -> <<>>
    /\ tools = IF bot = "intake" THEN SetTools({}, InitialTools) ELSE {}
    /\ registered = IF bot = "intake" THEN IntakeRegistered ELSE {}
    /\ llm_queue = 0
    /\ snapshot_tools = {}
    /\ fresh_frames = 0
    /\ result_calls = 0
    /\ call = NoCall
    /\ stale_calls = 0
    /\ stage = IF bot = "intake" THEN "verification" ELSE "none"
    /\ saved_file = NoFile
    /\ final_file = NoFile
    /\ current_node = "none"
    /\ current_order = NoOrder
    /\ next_order_id = 1
    /\ check_task = "none"
    /\ end_timers = 0
    /\ end_frames = 0
    /\ pending_at_end = 0
    /\ bot_procs = [p \in {} |-> 0]
    /\ room_bot_types = [r \in {} |-> "intake"]
    /\ status_response = NoResponse
    /\ finished_reported = {}
    /\ agent_requests = <<>>

\* ------------------------------------------------------------- the pipeline
\* context_aggregator.user(): a user utterance is added to the context and
\* the context is queued to the LLM
UserSpeech ==
    /\ Running
    /\ ~participant_left
    /\ Room(1 + ReservedMsgs, 1 + ReservedFrames)
    /\ Detours < MaxDetours
    /\ messages' = AddMessage(messages, Msg("user", "utterance"))
    /\ llm_queue' = llm_queue + 1
    /\ snapshot_tools' = tools
    /\ fresh_frames' = 1
    /\ UNCHANGED <<serverVars, bot, transportVars, joined, task_state, tools,
                   registered, call, stale_calls, result_calls, intakeVars,
                   shawarmaVars>>

\* The LLM answers a queued context with text: it goes through the TTS to the
\* transport output, and context_aggregator.assistant() adds it to the context
LLMReply ==
    /\ CanConsume
    /\ call = NoCall
    /\ llm_queue > 0
    /\ Room(1, 0)
    /\ Detours < MaxDetours
    /\ spoken' = Append(spoken, "reply")
    /\ messages' = AddMessage(messages, Msg("assistant", "reply"))
    /\ llm_queue' = llm_queue - 1
    /\ fresh_frames' = 0
    /\ pending_at_end' = Consumed(pending_at_end)
    /\ UNCHANGED <<serverVars, bot, participant_left, joined, task_state, tools,
                   registered, call, stale_calls, snapshot_tools,
                   result_calls, intakeVars, current_node,
                   current_order, next_order_id, check_task, end_timers,
                   end_frames>>

\* ------------------------------------------------------------- intake bot
\* on_first_participant_joined: the context is queued to the LLM
IntakeJoined ==
    /\ bot = "intake"
    /\ ~joined
    /\ task_state = "running"
    /\ joined' = TRUE
    /\ llm_queue' = llm_queue + 1
    /\ snapshot_tools' = tools
    /\ fresh_frames' = fresh_frames + 1
    /\ UNCHANGED <<serverVars, bot, transportVars, task_state, messages, tools,
                   registered, call, stale_calls, result_calls, intakeVars,
                   shawarmaVars>>

\* The LLM answers a queued context with a function call; the LLM service
\* runs the function registered under that name
IntakeRequest(name, arg) ==
    /\ bot = "intake"
    /\ Running
    /\ call = NoCall
    /\ llm_queue > 0
    /\ name \in registered
    /\ name \in tools \/ Detours < MaxDetours
    /\ stale_calls' = IF name \in tools THEN stale_calls ELSE stale_calls + 1
    /\ Room(CallMsgs(name), CallFrames(name) - 1)
    /\ call' = [name |-> name, arg |-> arg, pc |-> DispatchEntry(name),
                result |-> "none"]
    /\ llm_queue' = llm_queue - 1
    /\ fresh_frames' = Taken(llm_queue, fresh_frames)
    /\ result_calls' = 0
    /\ UNCHANGED <<serverVars, bot, transportVars, joined, task_state, messages,
                   tools, registered, snapshot_tools, intakeVars,
                   shawarmaVars>>

\* start_prescriptions / start_allergies / start_conditions /
\* start_visit_reasons
IntakeStart ==
    /\ bot = "intake"
    /\ Running
    /\ call.pc = "start"
    /\ LET cb == IntakeStartCallback[call.name] IN
        /\ tools' = SetTools(tools, StartCallbackTools[cb])
        /\ stage' = StartCallbackStage[cb]
        /\ messages' = AddMessage(messages, StartCallbackMessage[cb])
        /\ snapshot_tools' = StartCallbackQueued(tools, StartCallbackTools[cb])
    /\ llm_queue' = llm_queue + 1
    /\ fresh_frames' = 1
    /\ call' = [call EXCEPT !.pc = "handler"]
    /\ UNCHANGED <<serverVars, bot, transportVars, joined, task_state, registered,
                   stale_calls, result_calls, saved_file, final_file,
                   shawarmaVars>>

HandlerAt(h) ==
    /\ bot = "intake"
    /\ Running
    /\ call.pc = "handler"
    /\ IntakeHandler[call.name] = h

\* An exception leaves the handler: result_callback is never called
HandlerRaises ==
    /\ call' = [call EXCEPT !.pc = "raised"]
    /\ UNCHANGED <<messages, llm_queue, snapshot_tools, fresh_frames,
                   result_calls>>

\* result_callback with messages: the context, changed by now, is queued
\* with the tools it has
ResultPrompts(tls) ==
    /\ snapshot_tools' = tls
    /\ fresh_frames' = 1
    /\ result_calls' = result_calls + 1

\* IntakeProcessor.verify_birthday
VerifyBirthday ==
    /\ HandlerAt("verify_birthday")
    /\ IF "birthday" \notin DOMAIN call.arg
       THEN /\ HandlerRaises
            /\ UNCHANGED <<tools, stage>>
       ELSE /\ IF BirthdayVerified(call.arg.birthday)
               THEN /\ tools' = SetTools(tools, PrescriptionsTools)
                    /\ stage' = "prescriptions"
                    /\ messages' = ResultCallbackMessages(messages,
                                       <<Msg("system", "ask_prescriptions")>>)
                    /\ ResultPrompts(SetTools(tools, PrescriptionsTools))
               ELSE /\ UNCHANGED <<tools, stage>>
                    /\ messages' = ResultCallbackMessages(messages,
                                       <<Msg("system", "retry_birthday")>>)
                    /\ ResultPrompts(tools)
            /\ llm_queue' = llm_queue + 1
            /\ call' = NoCall
    /\ UNCHANGED <<serverVars, bot, transportVars, joined, task_state, registered,
                   stale_calls, saved_file, final_file, shawarmaVars>>

\* IntakeProcessor.save_data: result_callback(None)
SaveData ==
    /\ HandlerAt("save_data")
    /\ messages' = ResultCallbackMessages(messages, <<>>)
    /\ llm_queue' = ResultCallbackFrames(llm_queue, <<>>)
    /\ result_calls' = result_calls + 1
    /\ call' = NoCall
    /\ UNCHANGED <<serverVars, bot, transportVars, joined, task_state, tools,
                   registered, stale_calls, snapshot_tools, fresh_frames,
                   intakeVars, shawarmaVars>>

\* IntakeProcessor.get_weather / get_recipe: the argument is read (KeyError
\* when it is missing), then one system message either way (the text of a
\* message is kept as its kind: the apology or the answer)
GetWeather ==
    /\ HandlerAt("get_weather")
    /\ IF "query" \notin DOMAIN call.arg \/ Lookup(call.arg.answer) = "raised"
       THEN HandlerRaises
       ELSE /\ messages' = ResultCallbackMessages(messages,
                    <<Msg("system", IF Lookup(call.arg.answer) = "none"
                                    THEN "lookup_failed"
                                    ELSE "lookup_result")>>)
            /\ llm_queue' = llm_queue + 1
            /\ ResultPrompts(tools)
            /\ call' = NoCall
    /\ UNCHANGED <<serverVars, bot, transportVars, joined, task_state, tools,
                   registered, stale_calls, intakeVars, shawarmaVars>>

GetRecipe ==
    /\ HandlerAt("get_recipe")
    /\ IF "query" \notin DOMAIN call.arg \/ Lookup(call.arg.answer) = "raised"
       THEN HandlerRaises
       ELSE /\ messages' = ResultCallbackMessages(messages,
                    <<Msg("system", IF Lookup(call.arg.answer) = "none"
                                    THEN "lookup_failed"
                                    ELSE "lookup_result")>>)
            /\ llm_queue' = llm_queue + 1
            /\ ResultPrompts(tools)
            /\ call' = NoCall
    /\ UNCHANGED <<serverVars, bot, transportVars, joined, task_state, tools,
                   registered, stale_calls, intakeVars, shawarmaVars>>

\* IntakeProcessor.get_news: with articles, two messages are added and the
\* context is queued before the result is delivered
GetNews ==
    /\ HandlerAt("get_news")
    /\ IF "query" \notin DOMAIN call.arg \/ Lookup(call.arg.answer) = "raised"
       THEN HandlerRaises
       ELSE /\ IF Lookup(call.arg.answer) = "none"
               THEN /\ messages' = ResultCallbackMessages(messages,
                                       <<Msg("system", "lookup_failed")>>)
                    /\ llm_queue' = llm_queue + 1
               ELSE /\ messages' = ResultCallbackMessages(
                                       AddMessage(AddMessage(messages,
                                           Msg("system", "summarize_articles")),
                                           Msg("user", "articles")),
                                       <<Msg("system", "news_follow_up")>>)
                    /\ llm_queue' = llm_queue + 2
            /\ ResultPrompts(tools)
            /\ call' = NoCall
    /\ UNCHANGED <<serverVars, bot, transportVars, joined, task_state, tools,
                   registered, stale_calls, intakeVars, shawarmaVars>>

\* IntakeProcessor.save_conversation: open() or pop() may raise, and then the
\* apology is returned
SaveConversation ==
    /\ HandlerAt("save_conversation")
    /\ \E open_ok \in BOOLEAN :
        IF open_ok /\ messages # <<>>
        THEN /\ saved_file' = [written |-> TRUE, doc |-> PersistedDoc(messages)]
             /\ messages' = ResultCallbackMessages(messages,
                                <<Msg("system", "saved")>>)
        ELSE /\ saved_file' = IF open_ok THEN NoFile ELSE saved_file
             /\ messages' = ResultCallbackMessages(messages,
                                <<Msg("system", "save_error")>>)
    /\ llm_queue' = llm_queue + 1
    /\ ResultPrompts(tools)
    /\ call' = NoCall
    /\ UNCHANGED <<serverVars, bot, transportVars, joined, task_state, tools,
                   registered, stale_calls, stage, final_file, shawarmaVars>>

\* on_participant_left: the whole transcript is written (best effort) and the
\* pipeline task is cancelled
IntakeParticipantLeft ==
    /\ bot = "intake"
    /\ joined
    /\ ~participant_left
    /\ participant_left' = TRUE
    /\ \E open_ok \in BOOLEAN :
        final_file' = IF open_ok THEN [written |-> TRUE, doc |-> messages]
                      ELSE final_file
    /\ task_state' = TaskCancel(task_state)
    /\ UNCHANGED <<serverVars, bot, spoken, joined, ctxVars, stage, saved_file,
                   shawarmaVars>>

\* An exception that left a handler is outside the script's hands: the LLM
\* service logs it and goes on with the next frame, or its task dies with it
DispatcherFault ==
    /\ bot = "intake"
    /\ Running
    /\ call.pc = "raised"
    /\ \/ call' = NoCall /\ UNCHANGED task_state
       \/ task_state' = "stalled" /\ UNCHANGED call
    /\ UNCHANGED <<serverVars, bot, transportVars, joined, messages, tools,
                   registered, llm_queue, stale_calls, snapshot_tools,
                   fresh_frames, result_calls, intakeVars, shawarmaVars>>

IntakeNext ==
    \/ IntakeJoined
    \/ \E n \in IntakeRegistered : \E a \in IntakeArgs(n) : IntakeRequest(n, a)
    \/ IntakeStart
    \/ DispatcherFault
    \/ VerifyBirthday
    \/ SaveData
    \/ GetWeather
    \/ GetRecipe
    \/ GetNews
    \/ SaveConversation
    \/ IntakeParticipantLeft

\* ------------------------------------------------------------- shawarma bot
\* FlowManager entering a node: the node's functions are registered on the
\* LLM, its messages are added, its functions become the context's tools, the
\* context is queued to the LLM and the post-actions run
FlowSetNode(node) ==
    /\ registered' = registered \cup NodeFunctions[node]
    /\ LET s == RunPreActions(NodePreActions[node],
                              [messages |-> messages, order |-> current_order])
       IN  /\ messages' = AddMessages(s.messages, NodeMessages[node])
           /\ current_order' = s.order
    /\ tools' = SetTools(tools, NodeFunctions[node])
    /\ llm_queue' = llm_queue + 1
    /\ snapshot_tools' = SetTools(tools, NodeFunctions[node])
    /\ fresh_frames' = 1
    /\ spoken' = ActionsSpoken(NodePostActions[node], spoken)
    /\ end_timers' = end_timers + TimersScheduled(NodePostActions[node])
    /\ current_node' = node

\* on_first_participant_joined: flow_manager.initialize(), then the
\* check_order_exists task is created
ShawarmaJoined ==
    /\ bot = "shawarma"
    /\ ~joined
    /\ task_state = "running"
    /\ joined' = TRUE
    /\ FlowSetNode(InitialNode)
    /\ check_task' = "pending"
    /\ UNCHANGED <<serverVars, bot, participant_left, task_state, call,
                   stale_calls, result_calls, intakeVars, next_order_id,
                   end_frames, pending_at_end>>

\* check_order_exists
CheckOrderExists ==
    /\ check_task = "pending"
    /\ task_state = "running"
    /\ current_order' = IF ~current_order.exists THEN CreateNewOrder
                        ELSE current_order
    /\ check_task' = "done"
    /\ UNCHANGED <<serverVars, bot, transportVars, joined, task_state, ctxVars,
                   intakeVars, current_node, next_order_id, end_timers,
                   end_frames, pending_at_end>>

\* The LLM answers a queued context with a function call that is registered
FlowRequest(name, arg) ==
    /\ bot = "shawarma"
    /\ CanConsume
    /\ call = NoCall
    /\ llm_queue > 0
    /\ name \in registered
    /\ name \in tools \/ Detours < MaxDetours
    /\ stale_calls' = IF name \in tools THEN stale_calls ELSE stale_calls + 1
    /\ Room(CallMsgs(name), CallFrames(name) - 1)
    /\ name = "select_shawarma_order" => Len(current_order.items) < MaxItems
    /\ call' = [name |-> name, arg |-> arg, pc |-> "handler", result |-> "none"]
    /\ llm_queue' = llm_queue - 1
    /\ fresh_frames' = Taken(llm_queue, fresh_frames)
    /\ result_calls' = 0
    /\ pending_at_end' = Consumed(pending_at_end)
    /\ UNCHANGED <<serverVars, bot, transportVars, joined, task_state, messages,
                   tools, registered, snapshot_tools, intakeVars,
                   current_node, current_order,
                   next_order_id, check_task, end_timers, end_frames>>

\* ... or with one that is not: no handler runs
FlowUnhandled(name) ==
    /\ bot = "shawarma"
    /\ CanConsume
    /\ call = NoCall
    /\ llm_queue > 0
    /\ name \notin registered
    /\ Detours < MaxDetours
    /\ stale_calls' = stale_calls + 1
    /\ llm_queue' = llm_queue - 1
    /\ fresh_frames' = Taken(llm_queue, fresh_frames)
    /\ pending_at_end' = Consumed(pending_at_end)
    /\ UNCHANGED <<serverVars, bot, transportVars, joined, task_state, messages,
                   tools, registered, call, snapshot_tools, result_calls,
                   intakeVars, current_node, current_order,
                   next_order_id, check_task, end_timers, end_frames>>

\* revise_order: the order is not cleared
ReviseOrderClears(order) == NoOrder
ReviseOrder(order) == order

\* The handlers: the order and the order counter after the call and the
\* status of the result.  select_shawarma_order and set_delivery_info catch
\* every exception (a missing argument too) and return an ErrorResult; the
\* other functions leave the OrderManager alone
HandlerResultNumbered(name, arg, order, next_id) ==
    CASE name = "select_shawarma_order" ->
            IF "item_type" \notin DOMAIN arg
            THEN [order |-> order, next_order_id |-> next_id, status |-> "error"]
            ELSE LET r == AddItem(order, arg.item_type, arg.quantity * next_id,
                                  arg.extras)
                 IN  [order |-> r.order, next_order_id |-> next_id,
                      status |-> IF r.raised THEN "error" ELSE "ok"]
      [] name = "set_delivery_info" ->
            IF "address" \notin DOMAIN arg
            THEN [order |-> order, next_order_id |-> next_id, status |-> "error"]
            ELSE LET r == SetDeliveryInfo(order, arg.address, arg.phone)
                 IN  [order |-> r.order, next_order_id |-> next_id,
                      status |-> IF r.raised THEN "error" ELSE "ok"]
      [] OTHER -> [order |-> order, next_order_id |-> next_id, status |-> "ok"]
HandlerResult(name, arg, order, next_id) ==
    CASE name = "select_shawarma_order" ->
            IF "item_type" \notin DOMAIN arg
            THEN [order |-> order, next_order_id |-> next_id, status |-> "error"]
            ELSE LET r == AddItem(order, arg.item_type, arg.quantity, arg.extras)
                 IN  [order |-> r.order, next_order_id |-> next_id,
                      status |-> IF r.raised THEN "error" ELSE "ok"]
      [] name = "set_delivery_info" ->
            IF "address" \notin DOMAIN arg
            THEN [order |-> order, next_order_id |-> next_id, status |-> "error"]
            ELSE LET r == SetDeliveryInfo(order, arg.address, arg.phone)
                 IN  [order |-> r.order, next_order_id |-> next_id,
                      status |-> IF r.raised THEN "error" ELSE "ok"]
      [] name = "revise_order" ->
            [order |-> ReviseOrder(order), next_order_id |-> next_id,
             status |-> "ok"]
      [] OTHER -> [order |-> order, next_order_id |-> next_id, status |-> "ok"]

\* The handler runs and its result is added to the context; a function with
\* no transition_to prompts the LLM again, one with transition_to goes on to
\* the transition
FlowHandler ==
    /\ bot = "shawarma"
    /\ Processing
    /\ call.pc = "handler"
    /\ LET r == HandlerResult(call.name, call.arg, current_order,
                              next_order_id) IN
        /\ current_order' = r.order
        /\ next_order_id' = r.next_order_id
        /\ messages' = AddMessage(messages, Msg("tool", r.status))
        /\ result_calls' = result_calls + 1
        /\ IF FunctionTransition[call.name] = "none"
           THEN /\ call' = NoCall
                /\ llm_queue' = llm_queue + 1
                /\ snapshot_tools' = tools
                /\ fresh_frames' = 1
           ELSE /\ call' = [call EXCEPT !.pc = "transition",
                                        !.result = r.status]
                /\ fresh_frames' = 0
                /\ UNCHANGED <<llm_queue, snapshot_tools>>
    /\ UNCHANGED <<serverVars, bot, transportVars, joined, task_state, tools, registered,
                   stale_calls, intakeVars, current_node, check_task,
                   end_timers, end_frames, pending_at_end>>

\* The transition the function declares
FlowTransition ==
    /\ bot = "shawarma"
    /\ Processing
    /\ call.pc = "transition"
    /\ FlowSetNode(FunctionTransition[call.name])
    /\ call' = NoCall
    /\ UNCHANGED <<serverVars, bot, participant_left, joined, task_state,
                   stale_calls, result_calls, intakeVars, next_order_id,
                   check_task, end_frames, pending_at_end>>

\* end_call_after_delay: the sleep is over and an EndFrame is queued, behind
\* the context frames already waiting
EndCallAfterDelay ==
    /\ end_timers > 0
    /\ task_state \in {"running", "ending"}
    /\ end_timers' = end_timers - 1
    /\ end_frames' = end_frames + 1
    /\ pending_at_end' = IF task_state = "running" THEN llm_queue
                         ELSE pending_at_end
    /\ task_state' = "ending"
    /\ UNCHANGED <<serverVars, bot, transportVars, joined, ctxVars, intakeVars,
                   current_node, current_order, next_order_id, check_task>>

\* The pipeline processes the EndFrame: the runner returns and the tasks
\* still pending go with the event loop
PipelineEnds ==
    /\ task_state = "ending"
    /\ task_state' = "ended"
    /\ UNCHANGED <<serverVars, bot, transportVars, joined, ctxVars, intakeVars,
                   shawarmaVars>>

\* The participant leaves: shawarma_bot.py registers no on_participant_left
\* handler, so nothing runs
ShawarmaParticipantLeft ==
    /\ bot = "shawarma"
    /\ joined
    /\ ~participant_left
    /\ participant_left' = TRUE
    /\ UNCHANGED <<serverVars, bot, spoken, joined, task_state, ctxVars, intakeVars,
                   shawarmaVars>>

ShawarmaNext ==
    \/ ShawarmaJoined
    \/ CheckOrderExists
    \/ \E n \in FlowFunctionNames : \E a \in FlowArgs(n) : FlowRequest(n, a)
    \/ \E n \in FlowFunctionNames : FlowUnhandled(n)
    \/ FlowHandler
    \/ FlowTransition
    \/ EndCallAfterDelay
    \/ PipelineEnds
    \/ ShawarmaParticipantLeft

\* ------------------------------------------------------------- simple bot
\* on_first_participant_joined: the introduction request is appended to the
\* messages and the context is queued to the LLM
SimpleJoined ==
    /\ bot = "simple"
    /\ ~joined
    /\ task_state = "running"
    /\ joined' = TRUE
    /\ messages' = AddMessage(messages, Msg("system", "introduce_yourself"))
    /\ llm_queue' = llm_queue + 1
    /\ snapshot_tools' = tools
    /\ fresh_frames' = 1
    /\ UNCHANGED <<serverVars, bot, transportVars, task_state, tools, registered,
                   call, stale_calls, result_calls, intakeVars, shawarmaVars>>

\* on_participant_left: the pipeline task is cancelled; nothing is saved
SimpleParticipantLeft ==
    /\ bot = "simple"
    /\ joined
    /\ ~participant_left
    /\ participant_left' = TRUE
    /\ task_state' = TaskCancel(task_state)
    /\ UNCHANGED <<serverVars, bot, spoken, joined, ctxVars, intakeVars, shawarmaVars>>

SimpleNext == SimpleJoined \/ SimpleParticipantLeft

Next == UserSpeech \/ LLMReply \/ IntakeNext \/ ShawarmaNext \/ SimpleNext

Spec == Init /\ [][Next]_vars

\* ------------------------------------------------------------- OrderManager
\* The OrderManager's methods called directly, in any order, with arguments
\* from wider sets than the flow sends
ItemTypes == {"chicken", "meat", "mix", "falafel"}
Quantities == {0, 1, 2}
ExtrasLists == {<<>>, <<"cheese">>, <<"fries", "ketchup">>}

OrderInit == Init /\ bot = "shawarma"

\* What the OrderManager's methods leave alone
orderFrame == <<serverVars, bot, transportVars, joined, task_state, ctxVars, intakeVars,
                current_node, check_task, end_timers, end_frames,
                pending_at_end>>

CallCreateNewOrder ==
    /\ current_order # CreateNewOrder
    /\ current_order' = CreateNewOrder
    /\ UNCHANGED <<orderFrame, next_order_id>>

CallAddItem(t, q, e) ==
    /\ Len(current_order.items) < MaxItems
    /\ current_order' = AddItem(current_order, t, q, e).order
    /\ UNCHANGED <<orderFrame, next_order_id>>

CallSetDeliveryInfo(a) ==
    /\ current_order' = SetDeliveryInfo(current_order, a.address, a.phone).order
    /\ UNCHANGED <<orderFrame, next_order_id>>

CallFinalizeOrder ==
    /\ next_order_id < MaxOrderId
    /\ next_order_id' = FinalizeOrder(current_order, next_order_id).next_order_id
    /\ UNCHANGED <<orderFrame, current_order>>

\* OrderManager.clear_order
CallClearOrder ==
    /\ current_order # NoOrder
    /\ current_order' = NoOrder
    /\ UNCHANGED <<orderFrame, next_order_id>>

\* A handler of the flow called on the OrderManager as it is
CallHandler(name, arg) ==
    /\ name = "select_shawarma_order" => Len(current_order.items) < MaxItems
    /\ LET r == HandlerResult(name, arg, current_order, next_order_id) IN
        /\ current_order' = r.order
        /\ next_order_id' = r.next_order_id
    /\ UNCHANGED orderFrame

OrderNext ==
    \/ CallCreateNewOrder
    \/ \E t \in ItemTypes, q \in Quantities, e \in ExtrasLists : CallAddItem(t, q, e)
    \/ \E a \in DeliveryInputs : CallSetDeliveryInfo(a)
    \/ CallFinalizeOrder
    \/ CallClearOrder
    \/ \E n \in FlowFunctionNames : \E a \in FlowArgs(n) : CallHandler(n, a)

SpecOrder == OrderInit /\ [][OrderNext]_vars

\* ------------------------------------------------------------- the server
ServerInit == Init /\ bot = "intake"

\* What the server's endpoints leave alone
serverFrame == <<bot, joined, task_state, transportVars, ctxVars, intakeVars,
                 shawarmaVars>>

\* POST /start_bot: a token for the sample room, then the script of the
\* request's bot type is started (a failure before that answers 500 and
\* leaves the server as it was)
StartBot(data) ==
    /\ \E pid \in FreePids :
        bot_procs' = Popen(bot_procs, pid, BotScript(StartBotType(data)),
                           SampleRoom, "start_bot", RequestBotType(data))
    /\ UNCHANGED <<serverFrame, room_bot_types, status_response,
                   finished_reported, agent_requests>>

\* POST /connect: a room is created and the bot type is stored for it; with
\* a token for the room the script is started, without one the answer is 500
RtviConnect(data) ==
    /\ Cardinality(DOMAIN room_bot_types) < MaxRooms
    /\ LET bot_type == ConnectBotType(data, room_bot_types)
           room == CreatedRooms[Cardinality(DOMAIN room_bot_types) + 1]
       IN  /\ room_bot_types' =
                  [r \in DOMAIN room_bot_types \cup {room} |->
                      IF r = room THEN bot_type ELSE room_bot_types[r]]
           /\ \E token_ok \in BOOLEAN :
                  IF token_ok
                  THEN \E pid \in FreePids :
                          bot_procs' = Popen(bot_procs, pid, BotScript(bot_type),
                                             room, "connect",
                                             RequestBotType(data))
                  ELSE UNCHANGED bot_procs
    /\ UNCHANGED <<serverFrame, status_response, finished_reported,
                   agent_requests>>

\* GET /start_agent runs in three pieces, the event loop being free to run
\* other requests at each await.  First the request arrives and create_room
\* is awaited
AgentRequest ==
    /\ Len(agent_requests) < MaxRooms
    /\ agent_requests' = Append(agent_requests,
                                [room |-> CreateRoom(Len(agent_requests)),
                                 pc |-> "created"])
    /\ UNCHANGED <<serverFrame, bot_procs, room_bot_types, status_response,
                   finished_reported>>

\* ... then the bots running in the room are counted: at the limit the
\* answer is 500, below it get_token is awaited
AgentCheck(i) ==
    /\ i \in 1..Len(agent_requests)
    /\ agent_requests[i].pc = "created"
    /\ agent_requests' =
          [agent_requests EXCEPT
              ![i].pc = IF Cardinality(BotsInRoom(bot_procs,
                                                  agent_requests[i].room))
                           >= MAX_BOTS_PER_ROOM
                        THEN "refused" ELSE "checked"]
    /\ UNCHANGED <<serverFrame, bot_procs, room_bot_types, status_response,
                   finished_reported>>

\* ... then, with a token, bot.py is started in the room and recorded in
\* bot_procs; without one, or when the process cannot be started, the
\* answer is 500
AgentSpawn(i) ==
    /\ i \in 1..Len(agent_requests)
    /\ agent_requests[i].pc = "checked"
    /\ \E ok \in BOOLEAN :
        IF ok
        THEN /\ \E pid \in FreePids :
                  bot_procs' = Popen(bot_procs, pid, "bot.py",
                                     agent_requests[i].room, "start_agent",
                                     "missing")
             /\ agent_requests' = [agent_requests EXCEPT ![i].pc = "started"]
        ELSE /\ agent_requests' = [agent_requests EXCEPT ![i].pc = "failed"]
             /\ UNCHANGED bot_procs
    /\ UNCHANGED <<serverFrame, room_bot_types, status_response,
                   finished_reported>>

\* GET /status/{pid}
GetStatus(pid) ==
    /\ IF pid \notin DOMAIN bot_procs
       THEN /\ status_response' = [bot_id |-> pid, code |-> 404,
                                    status |-> "none"]
            /\ UNCHANGED <<bot_procs, finished_reported>>
       ELSE /\ status_response' =
                   [bot_id |-> pid, code |-> 200,
                    status |-> IF ~bot_procs[pid].exited THEN "running"
                               ELSE "finished"]
            /\ bot_procs' = Poll(bot_procs, pid)
            /\ finished_reported' =
                   IF bot_procs[pid].exited THEN finished_reported \cup {pid}
                   ELSE finished_reported
    /\ UNCHANGED <<serverFrame, room_bot_types, agent_requests>>

\* A bot process ends
ProcessExits(pid) ==
    /\ pid \in DOMAIN bot_procs
    /\ ~bot_procs[pid].exited
    /\ bot_procs' = [bot_procs EXCEPT ![pid].exited = TRUE]
    /\ UNCHANGED <<serverFrame, room_bot_types, status_response,
                   finished_reported, agent_requests>>

ServerNext ==
    \/ \E d \in Requests : StartBot(d)
    \/ \E d \in Requests : RtviConnect(d)
    \/ AgentRequest
    \/ \E i \in 1..MaxRooms : AgentCheck(i)
    \/ \E i \in 1..MaxRooms : AgentSpawn(i)
    \/ \E p \in Pids : GetStatus(p)
    \/ \E p \in Pids : ProcessExits(p)

SpecServer == ServerInit /\ [][ServerNext]_vars

\* GET /start_agent requests alone, interleaved in every way, with the
\* processes ending and being polled
AgentNext ==
    \/ AgentRequest
    \/ \E i \in 1..MaxRooms : AgentCheck(i)
    \/ \E i \in 1..MaxRooms : AgentSpawn(i)
    \/ \E p \in Pids : GetStatus(p)
    \/ \E p \in Pids : ProcessExits(p)

SpecAgent == ServerInit /\ [][AgentNext]_vars

\* ------------------------------------------------------------- properties
LastMessage == messages[Len(messages)]

\* C1: in every reachable state the tools advertised to the LLM are exactly
\* the tools the current stage (intake bot) or the current node (shawarma
\* flow) declares: never more, never a set left over from an earlier node.
ToolSetMatchesStage ==
    /\ bot = "intake" => tools = StageTools(stage)
    /\ bot = "shawarma" => tools = NodeTools(current_node)

\* The flow is back in node start after a revision, with the functions of
\* every other node registered on the way
BackInStartAfterRevision ==
    /\ bot = "shawarma"
    /\ current_node = "start"
    /\ "revise_order" \in registered
    /\ call = NoCall

\* C2: a function call naming a tool that is not in the active tool set is
\* rejected: no handler and no start callback is run for it.
InactiveToolRejected ==
    [][(call = NoCall /\ call' # NoCall) => call'.name \in tools]_vars

\* C3: in the identity-gate stage, verify_birthday with a birthday other than
\* "1983-01-01" keeps the stage and the tools and adds exactly one corrective
\* system message.
VerifyHandlerStep ==
    /\ bot = "intake"
    /\ call.name = "verify_birthday"
    /\ call.pc = "handler"
    /\ call' = NoCall
WrongBirthdayRetries ==
    [][(VerifyHandlerStep /\ stage = "verification"
          /\ call.arg.birthday # "1983-01-01")
        => /\ stage' = stage
           /\ tools' = tools
           /\ messages' = Append(messages, Msg("system", "retry_birthday"))]_vars

RetryAsked ==
    /\ bot = "intake"
    /\ stage = "verification"
    /\ tools = InitialTools
    /\ LastMessage = Msg("system", "retry_birthday")

\* C4 as claimed: the identity-gate stage advertises only the verify tool, and
\* the prescriptions stage exactly list_prescriptions.
IdentityGateOnlyVerify ==
    /\ (bot = "intake" /\ stage = "verification") => tools = {"verify_birthday"}
    /\ (bot = "intake" /\ stage = "prescriptions") => tools = {"list_prescriptions"}

\* C4 as amended: the identity-gate stage advertises verify_birthday together
\* with save_conversation, get_weather, get_recipe and get_news, and
\* verify_birthday with "1983-01-01" moves the session to the prescriptions
\* stage with exactly list_prescriptions advertised.
IdentityGateTools ==
    [][/\ (bot = "intake" /\ stage = "verification")
            => tools = {"verify_birthday", "save_conversation", "get_weather",
                        "get_recipe", "get_news"}
       /\ (VerifyHandlerStep /\ stage = "verification"
             /\ call.arg.birthday = "1983-01-01")
            => (stage' = "prescriptions" /\ tools' = {"list_prescriptions"})]_vars

IdentityConfirmed ==
    /\ bot = "intake"
    /\ stage = "prescriptions"
    /\ tools = {"list_prescriptions"}
    /\ LastMessage = Msg("system", "ask_prescriptions")
    /\ stale_calls = 0

\* C5: when the handler of a function that declares a transition returns an
\* error result, the flow does not transition: node and tools stay as they are.
FailedHandlerDoesNotTransition ==
    [][(bot = "shawarma" /\ call.pc = "transition" /\ call.result = "error")
        => (current_node' = current_node /\ tools' = tools)]_vars

\* C6: a tool with no transition is local: while its call is in flight, and
\* when its handler delivers the result, the node, the stage and the tools
\* stay as they are.
LocalToolsKeepNode ==
    [][(call.name \in {"get_menu", "get_weather", "get_recipe", "get_news",
                       "save_conversation"})
        => (current_node' = current_node /\ stage' = stage /\ tools' = tools)]_vars

\* get_menu has run in node order_items and the flow is still there
MenuShownInOrderItems ==
    /\ bot = "shawarma"
    /\ current_node = "order_items"
    /\ tools = {"select_shawarma_order", "get_menu"}
    /\ call = NoCall
    /\ LastMessage = Msg("tool", "ok")

\* C7: for list_prescriptions, list_allergies, list_conditions and
\* list_visit_reasons the target stage's tools are in the context when the
\* handler (save_data) is about to deliver its result.
StartCallbackBeforeResult ==
    (bot = "intake" /\ call.pc = "handler") =>
        /\ call.name = "list_prescriptions" => tools = {"list_allergies"}
        /\ call.name = "list_allergies" => tools = {"list_conditions"}
        /\ call.name = "list_conditions" => tools = {"list_visit_reasons"}
        /\ call.name = "list_visit_reasons" => tools = {}

PrescriptionsResultPending ==
    /\ bot = "intake"
    /\ call.name = "list_prescriptions"
    /\ call.pc = "handler"
    /\ stage = "allergies"
    /\ stale_calls = 0

\* C8: the transcript only grows: before every step it is a prefix of the
\* transcript after the step.
TranscriptOnlyGrows == [][IsPrefix(messages, messages')]_vars

SavedThenDisconnected ==
    /\ bot = "intake"
    /\ saved_file.written
    /\ final_file.written
    /\ task_state = "cancelled"
    /\ Len(messages) >= 4

\* C9: when save_conversation succeeds, the document written is the
\* transcript in order with exactly its last message left out.
SavedDocumentOmitsLastMessage ==
    [][(bot = "intake" /\ call.name = "save_conversation" /\ call.pc = "handler"
          /\ call' = NoCall /\ messages'[Len(messages')] = Msg("system", "saved"))
        => /\ saved_file'.written
           /\ saved_file'.doc = SubSeq(messages, 1, Len(messages) - 1)]_vars

SaveInstructionLeftOut ==
    /\ bot = "intake"
    /\ Len(messages) = 4
    /\ messages[3] = Msg("user", "utterance")
    /\ messages[4] = Msg("system", "saved")
    /\ saved_file.written
    /\ saved_file.doc = SubSeq(messages, 1, 2)

\* C10: after any sequence of add_item calls the order's total is the sum over
\* its items of menu price x quantity plus the prices of the item's extras;
\* meat x 2 with cheese is 180, and chicken x 1 after it makes the total 245.
MenuPriceOf(t) == CASE t = "chicken" -> 65 [] t = "meat" -> 85 [] t = "mix" -> 75
ExtraPriceOf(e) ==
    CASE e = "fries" -> 25 [] e = "cheese" -> 10 [] e = "garlic_sauce" -> 5
      [] e = "tahini_extra" -> 5 [] OTHER -> 0
RECURSIVE SumOver(_, _, _)
SumOver(f(_), seq, i) ==
    IF i > Len(seq) THEN 0 ELSE f(seq[i]) + SumOver(f, seq, i + 1)
LinePrice(item) ==
    MenuPriceOf(item.type) * item.quantity + SumOver(ExtraPriceOf, item.extras, 1)
MeatTwiceWithCheese == [type |-> "meat", quantity |-> 2, extras |-> <<"cheese">>]
ChickenOnce == [type |-> "chicken", quantity |-> 1, extras |-> <<>>]
OrderTotalIsSumOfItems ==
    /\ current_order.total = SumOver(LinePrice, current_order.items, 1)
    /\ current_order.items = <<MeatTwiceWithCheese>> => current_order.total = 180
    /\ current_order.items = <<MeatTwiceWithCheese, ChickenOnce>>
            => current_order.total = 245

MeatThenChickenOrdered ==
    /\ current_order.items = <<MeatTwiceWithCheese, ChickenOnce>>
    /\ current_order.total = 245

\* C11: a successful handler call replayed with the same arguments gives the
\* same change of the order both times, and the change does not depend on
\* next_order_id: the same call on the same order under any other value of
\* the counter gives the same order and leaves the counter alone.
OrderDelta(before, after) ==
    [added |-> SubSeq(after.items, Len(before.items) + 1, Len(after.items)),
     total |-> after.total - before.total,
     address |-> after.address,
     phone |-> after.phone]
ReplayGivesSameDelta ==
    \A n \in FlowFunctionNames : \A a \in FlowArgs(n) :
        LET r1 == HandlerResult(n, a, current_order, next_order_id)
            r2 == HandlerResult(n, a, r1.order, r1.next_order_id)
        IN  r1.status = "ok" =>
              /\ r2.status = "ok"
              /\ OrderDelta(r1.order, r2.order) = OrderDelta(current_order, r1.order)
              /\ r1.next_order_id = next_order_id
              /\ \A k \in 1..MaxOrderId :
                    /\ HandlerResult(n, a, current_order, k).order = r1.order
                    /\ HandlerResult(n, a, current_order, k).status = "ok"

\* The same item ordered twice after an order was finalized
ReplayedAfterFinalize ==
    /\ next_order_id = 2
    /\ current_order.items = <<MeatTwiceWithCheese, MeatTwiceWithCheese>>
    /\ current_order.total = 360
    /\ current_order.address # ""

\* C12: every node of the flow that has functions (start, order_items,
\* delivery_info, confirm) is reached from the initial node by following the
\* transitions of the functions the nodes declare, and the flow is never in
\* a node outside that set.
NonTerminalNodes == {n \in FlowNodes : NodeFunctions[n] # {}}
Successors(ns) ==
    ns \cup ({FunctionTransition[f] : f \in UNION {NodeFunctions[n] : n \in ns}}
             \ {"none"})
RECURSIVE ReachableFrom(_)
ReachableFrom(ns) ==
    IF Successors(ns) = ns THEN ns ELSE ReachableFrom(Successors(ns))
EveryNodeReachable ==
    /\ NonTerminalNodes = {"start", "order_items", "delivery_info", "confirm"}
    /\ NonTerminalNodes \subseteq ReachableFrom({InitialNode})
    /\ current_node \in ReachableFrom({InitialNode}) \cup {"none"}

\* The flow is in node confirm after successful calls only
ConfirmReachedBySuccesses ==
    /\ bot = "shawarma"
    /\ current_node = "confirm"
    /\ call = NoCall
    /\ stale_calls = 0
    /\ \A i \in 1..Len(messages) : messages[i] # Msg("tool", "error")
    /\ current_order.items # <<>>
    /\ current_order.address # ""

\* C13: when an EndFrame has been queued, the closing text of the end node's
\* tts_say action has been sent to the transport.
AnnouncedBeforeEndFrame ==
    end_frames > 0 => \E i \in 1..Len(spoken) : spoken[i] = "goodbye"

\* C14: once an EndFrame has been queued the flow is inert: no function call
\* is dispatched any more and, with no call in flight, the node, the tools
\* and the order stay as they are.
InertAfterEndFrame ==
    [][(end_frames > 0 /\ call = NoCall)
        => /\ call' = NoCall
           /\ current_node' = current_node
           /\ tools' = tools
           /\ current_order' = current_order]_vars

\* C15: a session is terminated at most once: no second EndFrame is queued.
AtMostOneEndFrame == end_frames <= 1

\* C16: when the participant leaves, the pipeline task is cancelled in the
\* same step, whatever the bot.
DisconnectCancelsTask ==
    [][(~participant_left /\ participant_left') => task_state' = "cancelled"]_vars

\* C17: when a weather, recipe or news lookup fails (non-200 answer, empty
\* result, exception inside the lookup) the handler does not raise: it
\* delivers one fallback message, the LLM is prompted again, and stage, tools
\* and the pipeline task stay as they are.
LookupFailureAnswered ==
    [][(/\ bot = "intake"
        /\ call.pc = "handler"
        /\ call.name \in {"get_weather", "get_recipe", "get_news"}
        /\ "query" \in DOMAIN call.arg
        /\ call.arg.answer \in {"non200", "empty", "exception"}
        /\ call' # call)
        => /\ call' = NoCall
           /\ messages' = Append(messages, Msg("system", "lookup_failed"))
           /\ llm_queue' = llm_queue + 1
           /\ stage' = stage
           /\ tools' = tools
           /\ task_state' = task_state]_vars

\* A lookup has failed and the session goes on
FallbackDelivered ==
    /\ bot = "intake"
    /\ task_state = "running"
    /\ call = NoCall
    /\ stage = "verification"
    /\ LastMessage = Msg("system", "lookup_failed")
    /\ llm_queue > 0

\* C18: no exception leaves a tool handler.
NoFaultLeavesHandler == call.pc # "raised"

\* C19: the order is created and changed only by the step of a handler that
\* the dispatcher runs for a function call.
OrderChangedOnlyByHandlers ==
    [][current_order' # current_order => call.pc = "handler"]_vars

\* C20: while a function call is in flight and stays in flight, its dispatch
\* queues no context frame to the LLM.
NoFrameQueuedDuringDispatch ==
    [][(call # NoCall /\ call' # NoCall /\ call' # call)
        => llm_queue' <= llm_queue]_vars

\* C21: a tool-set swap is complete before the next context snapshot is
\* taken: the context last queued to the LLM, by a start callback, by a
\* handler's result or on entering a node, carries the tool set of the stage
\* the session is in, never the set of the stage it left.
SwapBeforeSnapshot ==
    joined =>
        /\ snapshot_tools = tools
        /\ bot = "intake" => snapshot_tools = StageTools(stage)
        /\ bot = "shawarma" => snapshot_tools = NodeTools(current_node)

\* start_allergies has swapped the tools and queued the context; its handler
\* has not run yet
ConditionsContextQueued ==
    /\ bot = "intake"
    /\ stage = "conditions"
    /\ call.pc = "handler"
    /\ snapshot_tools = ConditionsTools
    /\ llm_queue > 0

\* C22: a context frame handed to the LLM is an immutable view: whenever the
\* LLM takes a frame from the queue, the context has not changed since that
\* frame was submitted.
SnapshotIsImmutableView ==
    [][llm_queue' < llm_queue => fresh_frames = llm_queue]_vars

\* C23: every handler invocation calls result_callback exactly once, on
\* every path out of the handler.
ResultCallbackExactlyOnce ==
    [][(call.pc = "handler" /\ call'.pc # "handler") => result_calls' = 1]_vars

\* The tasks the event loop has scheduled are run: the handlers and start
\* callbacks of a call in flight, the check_order_exists task, the
\* end_call_after_delay timers and the pipeline's processing of an EndFrame
SpecLive ==
    /\ Spec
    /\ WF_vars(IntakeStart)
    /\ WF_vars(VerifyBirthday)
    /\ WF_vars(SaveData)
    /\ WF_vars(GetWeather)
    /\ WF_vars(GetRecipe)
    /\ WF_vars(GetNews)
    /\ WF_vars(SaveConversation)
    /\ WF_vars(CheckOrderExists)
    /\ WF_vars(FlowHandler)
    /\ WF_vars(FlowTransition)
    /\ WF_vars(EndCallAfterDelay)
    /\ WF_vars(PipelineEnds)

\* C24: a session that reaches its terminal stage (node end of the shawarma
\* flow, the intake stage entered by list_visit_reasons) eventually has its
\* termination triggered, the scheduled tasks being run fairly.
TerminalStageEndsSession ==
    ((bot = "shawarma" /\ current_node = "end")
        \/ (bot = "intake" /\ stage = "finish"))
    ~> (task_state # "running")

\* A step that enters node start: the flow is initialized, or a function
\* whose transition names start has returned
EntersStart ==
    \/ bot = "shawarma" /\ ~joined /\ joined'
    \/ /\ call.pc = "transition"
       /\ FunctionTransition[call.name] = "start"
       /\ call' = NoCall

\* C25: the check_kitchen pre-action of node start is log-only: entering the
\* node changes the transcript by the node's own messages only, sets the
\* node's tools, leaves the order alone, and always succeeds.
CheckKitchenLogOnly ==
    [][EntersStart =>
        /\ current_node' = "start"
        /\ tools' = NodeFunctions["start"]
        /\ messages' = messages \o NodeMessages["start"]
        /\ current_order' = current_order]_vars

\* The flow has just been initialized: node start was entered and its
\* pre-action has run
StartEnteredAtJoin ==
    /\ bot = "shawarma"
    /\ joined
    /\ current_node = "start"
    /\ check_task = "pending"
    /\ messages = NodeMessages["start"]

\* C26: the flow graph is well formed: the initial node is a defined node,
\* every transition_to names a defined node, no node lists a function name
\* twice, and end is the only node with no functions and the only one that
\* carries the end_conversation post-action.
FlowGraphWellFormed ==
    /\ InitialNode \in FlowNodes
    /\ DOMAIN NodeFunctionList = FlowNodes
    /\ \A f \in FlowFunctionNames :
        FunctionTransition[f] \in FlowNodes \cup {"none"}
    /\ \A n \in FlowNodes : \A i, j \in 1..Len(NodeFunctionList[n]) :
        NodeFunctionList[n][i] = NodeFunctionList[n][j] => i = j
    /\ \A n \in FlowNodes :
        /\ NodeFunctionList[n] = <<>> <=> n = "end"
        /\ (\E i \in 1..Len(NodePostActions[n]) :
                NodePostActions[n][i] = "end_conversation") <=> n = "end"
    /\ current_node \in FlowNodes \cup {"none"}

\* The flow is in its terminal node and the termination is scheduled
TerminalNodeEntered ==
    /\ bot = "shawarma"
    /\ current_node = "end"
    /\ tools = {}
    /\ end_timers > 0

\* C27: the script is selected from the request's botType alone, the same on
\* both endpoints: movie_bot.py for movie, shawarma_bot.py for shawarma,
\* simple.py for simple and bot.py for any other or missing value.
SameScriptOnBothEndpoints ==
    \A p \in DOMAIN bot_procs :
        /\ bot_procs[p].endpoint \in {"start_bot", "connect"}
            => bot_procs[p].script
                 = BotScript(IF bot_procs[p].botType = "missing" THEN "intake"
                             ELSE bot_procs[p].botType)
        /\ \A q \in DOMAIN bot_procs :
            (/\ bot_procs[p].endpoint = "start_bot"
             /\ bot_procs[q].endpoint = "connect"
             /\ bot_procs[p].botType = bot_procs[q].botType)
            => bot_procs[p].script = bot_procs[q].script

\* C28: GET /status/{pid} answers running for a tracked process that has not
\* exited, finished for one that has, and 404 for a pid that was never
\* started; once finished was reported for a pid, running is never reported
\* for it again.
StatusFollowsProcess ==
    [][status_response' # status_response =>
        LET r == status_response' IN
        /\ r.bot_id \in DOMAIN bot_procs =>
            /\ r.code = 200
            /\ r.status = IF bot_procs[r.bot_id].exited THEN "finished"
                          ELSE "running"
        /\ r.bot_id \notin DOMAIN bot_procs => r.code = 404
        /\ r.status = "running" => r.bot_id \notin finished_reported]_vars

\* C29: after revise_order succeeds in node confirm the flow is in node
\* order_items, with that node's tools advertised.
ReviseReturnsToOrderItems ==
    [][(/\ call.name = "revise_order"
        /\ call.pc = "transition"
        /\ call.result = "ok"
        /\ current_node = "confirm"
        /\ call' = NoCall)
       => /\ current_node' = "order_items"
          /\ tools' = NodeFunctions["order_items"]]_vars

\* C30: whenever the current node is confirm or end, the order has at least
\* one item and a non-empty address and phone.
ConfirmedOrderIsComplete ==
    current_node \in {"confirm", "end"} =>
        /\ current_order.exists
        /\ Len(current_order.items) >= 1
        /\ current_order.address # ""
        /\ current_order.phone # ""

\* C31: revise_order does not clear the order: the handler and the
\* transition that follows leave the order's items, total, address and phone
\* as they were, and an item selected afterwards is appended to the items
\* already there.
ReviseKeepsOrder ==
    [][(call.name = "revise_order" /\ call' # call /\ call # NoCall) =>
        /\ current_order' = current_order
        /\ \A a \in SelectInputs :
            a.item_type \in DOMAIN SHAWARMA_MENU =>
                HandlerResult("select_shawarma_order", a, current_order',
                              next_order_id').order.items
                = Append(current_order.items,
                         [type |-> a.item_type, quantity |-> a.quantity,
                          extras |-> a.extras])]_vars

\* The flow is back in node start after revise_order, the item selected and
\* the delivery information given before the revision still in the order
RevisedOrderStillFilled ==
    /\ bot = "shawarma"
    /\ current_node = "start"
    /\ call = NoCall
    /\ "revise_order" \in registered
    /\ Len(current_order.items) = 1
    /\ current_order.total = 180
    /\ current_order.address # ""

\* The stage that follows each intake stage
NextStage ==
    [verification |-> "prescriptions", prescriptions |-> "allergies",
     allergies |-> "conditions", conditions |-> "visit_reasons",
     visit_reasons |-> "finish", finish |-> "finish"]

\* C32: the intake stages are entered only in the fixed order verification,
\* prescriptions, allergies, conditions, visit reasons, finish, each one from
\* the stage before it, and once finish is entered the advertised tool set
\* is empty for good.
StagesInFixedOrder ==
    [][bot = "intake" =>
        /\ stage' # stage => stage' = NextStage[stage]
        /\ stage = "finish" => tools' = {}]_vars

\* A select_shawarma_order call whose item type is not on the menu
InvalidItemCall ==
    /\ call.name = "select_shawarma_order"
    /\ "item_type" \in DOMAIN call.arg
    /\ call.arg.item_type \notin DOMAIN SHAWARMA_MENU

\* C33: add_item with an item type that is not on the menu raises, appends
\* no item and leaves the total as it was, and select_shawarma_order answers
\* with an ErrorResult instead of raising.
InvalidItemRejected ==
    [][(InvalidItemCall /\ call.pc = "handler" /\ call' # call) =>
        /\ AddItem(current_order, call.arg.item_type, call.arg.quantity,
                   call.arg.extras).raised
        /\ call'.pc = "transition"
        /\ call'.result = "error"
        /\ LastMessage' = Msg("tool", "error")
        /\ current_order'.items = current_order.items
        /\ current_order'.total = current_order.total]_vars

\* select_shawarma_order has answered a falafel order with an ErrorResult,
\* the meat ordered before still being the only item
InvalidItemAnswered ==
    /\ bot = "shawarma"
    /\ InvalidItemCall
    /\ call.pc = "transition"
    /\ call.result = "error"
    /\ Len(current_order.items) = 1

\* An order finalize_order refuses at its checks
NotFinalizable(order) ==
    \/ ~order.exists
    \/ order.items = <<>>
    \/ order.address = ""
    \/ order.phone = ""

\* C34: finalize_order fails and changes nothing (next_order_id and the
\* order stay the same) when there is no order, no item, or no address or
\* phone; a finalize_order that succeeds increases next_order_id by exactly
\* one, and next_order_id changes in no other way.
FinalizeFailsClean ==
    [][LET r == FinalizeOrder(current_order, next_order_id) IN
        /\ NotFinalizable(current_order) =>
            /\ r.raised
            /\ r.next_order_id = next_order_id
        /\ ~r.raised => r.next_order_id = next_order_id + 1
        /\ next_order_id' # next_order_id =>
            /\ ~NotFinalizable(current_order)
            /\ next_order_id' = next_order_id + 1
            /\ current_order' = current_order]_vars

\* An order was finalized and then cleared: finalize_order now fails
FinalizedThenCleared ==
    /\ next_order_id = 2
    /\ current_order = NoOrder

QuantityOf(item) == item.quantity

\* The estimate is the default with no item, and 15 + 5 per sandwich otherwise
EstimateAsStated(order) ==
    GetEstimatedDeliveryTime(order)
    = IF ~order.exists \/ Len(order.items) = 0 THEN 30
      ELSE 15 + 5 * SumOver(QuantityOf, order.items, 1)

\* A step that appends one item with a positive quantity to the order
PositiveItemAdded ==
    /\ Len(current_order'.items) = Len(current_order.items) + 1
    /\ current_order'.items[Len(current_order'.items)].quantity > 0

\* C35 as claimed: the estimated delivery time is 30 with no order or no
\* item and 15 + 5 x the sum of the quantities otherwise, and it never
\* decreases when an item with a positive quantity is added.
DeliveryTimeNeverDecreases ==
    [][/\ EstimateAsStated(current_order')
       /\ PositiveItemAdded =>
            GetEstimatedDeliveryTime(current_order')
            >= GetEstimatedDeliveryTime(current_order)]_vars

\* C35, amended: the estimated delivery time is 30 with no order or no item
\* and 15 + 5 x the sum of the quantities otherwise; it never decreases (it
\* rises) when an item with a positive quantity is added to an order that
\* has an item already; the first item can lower it from the default 30.
DeliveryTimeGrowsAfterFirstItem ==
    [][/\ EstimateAsStated(current_order')
       /\ (PositiveItemAdded /\ current_order.items # <<>>) =>
            GetEstimatedDeliveryTime(current_order')
            > GetEstimatedDeliveryTime(current_order)]_vars

\* Two lines, three sandwiches: 15 + 5 x 3
ThreeSandwichesEstimated ==
    /\ Len(current_order.items) = 2
    /\ SumOver(QuantityOf, current_order.items, 1) = 3
    /\ GetEstimatedDeliveryTime(current_order) = 30

\* C36: however GET /start_agent requests interleave, the processes recorded
\* in bot_procs for one room url that have not exited never number more
\* than MAX_BOTS_PER_ROOM.
AgentRoomLimitKept ==
    \A i \in 1..Len(agent_requests) :
        Cardinality(BotsInRoom(bot_procs, agent_requests[i].room))
        <= MAX_BOTS_PER_ROOM

\* The second request has gone from its limit check to its recorded process
\* while the first, past its own limit check, still awaits its token
SecondAgentOvertakesFirst ==
    /\ Len(agent_requests) = 2
    /\ agent_requests[1].pc = "checked"
    /\ agent_requests[2].pc = "started"
    /\ Cardinality(BotsInRoom(bot_procs, agent_requests[2].room)) = 1

====
